---- MODULE Spec2Model ----
(***************************************************************************)
(* Model of the OONI / M-Lab backend proxy (src/backend).                  *)
(*                                                                         *)
(* One call is followed at a time: an operation is started (its code up    *)
(* to the outbound request), the upstream answers, and the rest of the     *)
(* operation's code turns the answer into a return value, a raised         *)
(* failure or an HTTP response.  Texts are TLA+ strings, taken apart with   *)
(* SubSeq and put together with \o, so that formatting, upper-casing and   *)
(* substring tests are computed as Python computes them.                   *)
(***************************************************************************)
EXTENDS Integers, Sequences, FiniteSets, TLC

VARIABLES
    pc,       \* position of the call being followed: "idle", "awaiting", "done"
    op,       \* the operation that was called
    args,     \* its arguments (and the environment values it reads)
    sent,     \* the outbound requests issued by this call, in order
    reply,    \* the upstream's answers to them, in order
    result,   \* what the call returned, raised or answered
    mlab,     \* MLabClient.client: which construction produced it, or "absent"
    ooni_client,  \* the facade's process-wide OONIClient instance
    inflight      \* the facade's concurrently handled requests, by slot

vars == <<pc, op, args, sent, reply, result, mlab>>
\* the state of the facade serving several requests at once
cvars == <<ooni_client, inflight>>
allvars == <<vars, cvars>>

-----------------------------------------------------------------------------
(* Bounds of the model.                                                    *)

\* limits are drawn from LimitSlack values on each side of 1 and of 1000
LimitSlack == 2
\* offsets are drawn from -OffsetSlack..OffsetSlack
OffsetSlack == 1
\* longest enumerated list of measurement records in an upstream body
MaxResults == 2
\* number of extra distinct country codes, beyond the truncation length, in
\* the long upstream body
ExtraCodes == 2
\* most rows a warehouse query answers with
MaxRows == 2
\* number of requests the facade handles at the same time
NumRequests == 2

-----------------------------------------------------------------------------
(* Python values.                                                          *)

\* Optional[T]: None, or a value v of T.
None == [type |-> "NoneType"]
Some(v) == [type |-> "value", value |-> v]
Opt(S) == {None} \cup {Some(v) : v \in S}

\* Truthiness of an Optional[str]: None and "" are falsy.
Truthy(o) == o # None /\ o.value # ""

\* the empty mapping {}
EmptyDict == [k \in {} |-> k]

Min(a, b) == IF a <= b THEN a ELSE b

-----------------------------------------------------------------------------
(* Text.                                                                   *)

LowerLetters == "abcdefghijklmnopqrstuvwxyz"
UpperLetters == "ABCDEFGHIJKLMNOPQRSTUVWXYZ"
Digits == "0123456789"
\* the printable ASCII characters in code-point order: 32 (space) to 95, and
\* 97 to 126 (96, the backquote, cannot be written in a TLA+ string)
AsciiLow == " !\"#$%&'()*+,-./0123456789:;<=>?@ABCDEFGHIJKLMNOPQRSTUVWXYZ[\\]^_"
AsciiHigh == "abcdefghijklmnopqrstuvwxyz{|}~"

CharAt(s, i) == SubSeq(s, i, i)

\* index of character c in text s, 0 when absent
IndexIn(s, c) ==
    IF \E i \in 1..Len(s) : CharAt(s, i) = c
    THEN CHOOSE i \in 1..Len(s) : CharAt(s, i) = c
    ELSE 0

\* ord(c): the code point of a character
Ord(c) ==
    IF c = "\n" THEN 10
    ELSE IF IndexIn(AsciiLow, c) # 0 THEN 31 + IndexIn(AsciiLow, c)
    ELSE 96 + IndexIn(AsciiHigh, c)

\* str.upper() on one character
UpperChar(c) ==
    LET i == IndexIn(LowerLetters, c)
    IN  IF i = 0 THEN c ELSE CharAt(UpperLetters, i)

\* str.upper(): every character upper-cased, the halves of the text in turn
RECURSIVE Upper(_)
Upper(s) ==
    IF Len(s) = 0 THEN ""
    ELSE IF Len(s) = 1 THEN UpperChar(s)
    ELSE LET h == Len(s) \div 2
         IN  Upper(SubSeq(s, 1, h)) \o Upper(SubSeq(s, h + 1, Len(s)))

\* Python's (sub in s) on strings
Contains(s, sub) ==
    \E i \in 1..(Len(s) - Len(sub) + 1) : SubSeq(s, i, i + Len(sub) - 1) = sub

\* str(n) of an int
RECURSIVE NatStr(_)
NatStr(n) ==
    IF n < 10 THEN CharAt(Digits, n + 1)
    ELSE NatStr(n \div 10) \o CharAt(Digits, (n % 10) + 1)
IntStr(n) == IF n < 0 THEN "-" \o NatStr(-n) ELSE NatStr(n)

\* str(x) of a float holding a whole number, as an f-string formats it
FloatStr(n) == IntStr(n) \o ".0"

\* Python's s < t on strings: lexicographic by code point
RECURSIVE StrLessFrom(_, _, _)
StrLessFrom(s, t, i) ==
    IF i > Len(s) THEN i <= Len(t)
    ELSE IF i > Len(t) THEN FALSE
    ELSE IF CharAt(s, i) = CharAt(t, i) THEN StrLessFrom(s, t, i + 1)
    ELSE Ord(CharAt(s, i)) < Ord(CharAt(t, i))
StrLess(s, t) == StrLessFrom(s, t, 1)

\* sorted(S) of a set of strings
RECURSIVE Sorted(_)
Sorted(S) ==
    IF S = {} THEN <<>>
    ELSE LET m == CHOOSE x \in S : \A y \in S \ {x} : StrLess(x, y)
         IN  <<m>> \o Sorted(S \ {m})

-----------------------------------------------------------------------------
(* Outcomes of a call.                                                     *)

NoResult == [kind |-> "none"]
Return(v) == [kind |-> "return", value |-> v]
\* raise Exception(msg)
Raise(msg) == [kind |-> "raise", msg |-> msg]
\* the facade's answer: a status and a JSON body
HttpResponse(status, body) == [kind |-> "http", status |-> status, body |-> body]

-----------------------------------------------------------------------------
(* The upstream measurement API, as httpx shows it to the client.          *)

\* response.json(): the parsed value, or the ValueError it raises
JsonError(text) == [ok |-> FALSE, error |-> text]
JsonValue(v) == [ok |-> TRUE, value |-> v]
PyDict(items) == [type |-> "dict", items |-> items]

\* httpx.RequestError (transport failure), str(e) = text
RequestError(text) == [kind |-> "RequestError", text |-> text]
Response(status, text, json) ==
    [kind |-> "Response", status |-> status, text |-> text, json |-> json]

\* Response.is_success, which raise_for_status() tests
IsSuccess(status) == status \in 200..299

\* measurement records of an upstream body: with and without probe_cc
MeasurementRecords ==
    { [probe_cc |-> "US", test_name |-> "web_connectivity"],
      [probe_cc |-> "gb", test_name |-> "telegram"],
      [test_name |-> "whatsapp"] }

RECURSIVE SeqsUpTo(_, _)
SeqsUpTo(S, n) ==
    IF n = 0 THEN {<<>>}
    ELSE LET shorter == SeqsUpTo(S, n - 1)
         IN  shorter \cup {Append(q, x) : q \in {t \in shorter : Len(t) = n - 1}, x \in S}

\* two-letter codes, numbered from 0; consecutive numbers differ in case of
\* the first letter, so that code-point order is not the order of the numbers
CodeLetters == "ABCDEFGHIJ"
CodeOf(i) ==
    LET a == CharAt(CodeLetters, (i \div 10) + 1)
        b == CharAt(CodeLetters, (i % 10) + 1)
    IN  IF i % 2 = 0 THEN a \o b ELSE CharAt(LowerLetters, (i \div 10) + 1) \o b

-----------------------------------------------------------------------------
(* OONIClient (src/backend/ooni_client.py).                                *)

base_url == "https://api.ooni.io"
api_base == base_url \o "/api/v1"

\* the largest limit sent upstream
MAX_LIMIT == 1000
\* the number of measurements get_countries asks for
COUNTRIES_SAMPLE == 100
\* the number of countries get_countries returns at most
COUNTRIES_CUT == 50

\* mutant of ClampLimit: the limit is sent as given
ClampLimit_Unclamped(limit) == limit

\* min(limit, 1000)
ClampLimit(limit) == Min(limit, MAX_LIMIT)

\* params[key] = value when the optional filter is truthy
WithFilter(params, key, o) == IF Truthy(o) THEN (key :> o.value) @@ params ELSE params

\* the params mapping of get_measurements
get_measurements_params(a) ==
    LET p0 == [limit |-> ClampLimit(a.limit), offset |-> a.offset]
        p1 == WithFilter(p0, "test_name", a.test_name)
        p2 == WithFilter(p1, "probe_cc", a.probe_cc)
        p3 == WithFilter(p2, "since", a.since)
    IN  WithFilter(p3, "until", a.until)

\* self.client.get(url, params=params)
Get(url, params) == [method |-> "GET", url |-> url, params |-> params]

get_measurements_request(a) ==
    Get(api_base \o "/measurements", get_measurements_params(a))

\* the message of the failure raised for a non-2xx answer
HTTPStatusErrorText(r) == "HTTP error: " \o IntStr(r.status) \o " - " \o r.text
\* the message of the failure raised for a transport failure
RequestErrorText(r) == "Request error: " \o r.text

\* get_measurements from the answer on: try / raise_for_status / json / except
get_measurements_result(r) ==
    IF r.kind = "RequestError" THEN Raise(RequestErrorText(r))
    ELSE IF ~IsSuccess(r.status) THEN Raise(HTTPStatusErrorText(r))
    ELSE IF ~r.json.ok THEN Raise(r.json.error)
    ELSE Return(r.json.value)

common_tests ==
    << "web_connectivity", "http_requests", "dns_consistency",
       "http_invalid_request_line", "bridge_reachability", "tcp_connect",
       "http_header_field_manipulation", "http_host",
       "multi_protocol_traceroute", "meek_fronted_requests_test", "whatsapp",
       "facebook_messenger", "telegram", "vanilla_tor", "stunreachability" >>

get_test_names_request == Get(api_base \o "/measurements", [limit |-> 1])

\* mutant of get_test_names_result: a failed probe is raised to the caller
get_test_names_result_Raising(r) ==
    IF r.kind = "RequestError" THEN Raise(RequestErrorText(r))
    ELSE IF ~IsSuccess(r.status) THEN Raise(HTTPStatusErrorText(r))
    ELSE Return(common_tests)

\* get_test_names from the answer on: both branches return common_tests
get_test_names_result(r) ==
    IF r.kind = "RequestError" THEN Return(common_tests)
    ELSE IF ~IsSuccess(r.status) THEN Return(common_tests)
    ELSE Return(common_tests)

common_countries ==
    << [code |-> "US", name |-> "United States"],
       [code |-> "GB", name |-> "United Kingdom"],
       [code |-> "DE", name |-> "Germany"],
       [code |-> "FR", name |-> "France"],
       [code |-> "CN", name |-> "China"],
       [code |-> "RU", name |-> "Russia"],
       [code |-> "IR", name |-> "Iran"],
       [code |-> "IN", name |-> "India"],
       [code |-> "BR", name |-> "Brazil"],
       [code |-> "JP", name |-> "Japan"] >>

get_countries_request ==
    Get(api_base \o "/measurements", [limit |-> COUNTRIES_SAMPLE])

\* countries_set: the probe_cc of every measurement that has one
countries_set(results) ==
    { results[i]["probe_cc"] :
        i \in {j \in 1..Len(results) : "probe_cc" \in DOMAIN results[j]} }

\* [{"code": cc, "name": cc} for cc in sorted(countries_set)]
CountryEntries(codes) ==
    LET sorted == Sorted(codes)
    IN  [i \in 1..Len(sorted) |-> [code |-> sorted[i], name |-> sorted[i]]]

\* mutant of FirstCountries: the list is not cut
FirstCountries_Uncut(countries) == countries

\* countries[:50]
FirstCountries(countries) ==
    SubSeq(countries, 1, Min(COUNTRIES_CUT, Len(countries)))

\* mutant of get_countries_result: failures of the request are wrapped and
\* raised as get_measurements does, and only a body without results falls back
get_countries_result_Raising(r) ==
    IF r.kind = "RequestError" THEN Raise(RequestErrorText(r))
    ELSE IF ~IsSuccess(r.status) THEN Raise(HTTPStatusErrorText(r))
    ELSE IF ~r.json.ok THEN Raise(r.json.error)
    ELSE IF r.json.value.type # "dict" THEN Return(common_countries)
    ELSE IF "results" \in DOMAIN r.json.value.items
         THEN Return(FirstCountries(CountryEntries(
                         countries_set(r.json.value.items["results"]))))
         ELSE Return(common_countries)

\* get_countries from the answer on; every exception inside the try is
\* swallowed and leads to the final return of common_countries
get_countries_result(r) ==
    IF r.kind = "RequestError" THEN Return(common_countries)
    ELSE IF ~IsSuccess(r.status) THEN Return(common_countries)
    ELSE IF ~r.json.ok THEN Return(common_countries)
    \* ("results" in data) raises TypeError when data is None
    ELSE IF r.json.value.type # "dict" THEN Return(common_countries)
    ELSE IF "results" \in DOMAIN r.json.value.items
         THEN Return(FirstCountries(CountryEntries(
                         countries_set(r.json.value.items["results"]))))
         ELSE Return(common_countries)

-----------------------------------------------------------------------------
(* MLabClient (src/backend/mlab_client.py).                                *)
(* The backquote around the table name cannot be written in a TLA+ string  *)
(* and is written ~ in the query texts.                                    *)

\* datetime.now(), as a calendar date
Date(y, m, d) == [year |-> y, month |-> m, day |-> d]

IsLeap(y) == (y % 4 = 0 /\ y % 100 # 0) \/ y % 400 = 0
DaysInMonth(y, m) ==
    IF m = 2 THEN (IF IsLeap(y) THEN 29 ELSE 28)
    ELSE IF m \in {4, 6, 9, 11} THEN 30 ELSE 31

\* now - timedelta(days=1)
MinusOneDay(t) ==
    IF t.day > 1 THEN Date(t.year, t.month, t.day - 1)
    ELSE IF t.month > 1
         THEN Date(t.year, t.month - 1, DaysInMonth(t.year, t.month - 1))
         ELSE Date(t.year - 1, 12, 31)

\* zero-padded decimal of width w
RECURSIVE Pad(_, _)
Pad(text, w) == IF Len(text) >= w THEN text ELSE Pad("0" \o text, w)

\* strftime("%Y-%m-%d")
Strftime(t) ==
    Pad(NatStr(t.year), 4) \o "-" \o Pad(NatStr(t.month), 2)
        \o "-" \o Pad(NatStr(t.day), 2)

\* (datetime.now() - timedelta(days=1)).strftime("%Y-%m-%d")
Yesterday(now) == Strftime(MinusOneDay(now))

\* mutant of ResolveStart: an absent start date becomes the day of the call
ResolveStart_Today(start_date, now) ==
    IF Truthy(start_date) THEN start_date.value ELSE Strftime(now)

\* if not start_date: start_date = yesterday
ResolveStart(start_date, now) ==
    IF Truthy(start_date) THEN start_date.value ELSE Yesterday(now)
\* if not end_date: end_date = start_date
ResolveEnd(end_date, start) ==
    IF Truthy(end_date) THEN end_date.value ELSE start

\* the base query text of get_ndt_measurements
ndt_query(start_date, end_date) ==
    "\n"
    \o "        SELECT\n"
    \o "            test_id,\n"
    \o "            DATE(test_date) as test_date,\n"
    \o "            client.Geo.CountryCode as country_code,\n"
    \o "            client.Geo.CountryName as country_name,\n"
    \o "            client.Geo.Region as region,\n"
    \o "            server.Geo.CountryCode as server_country_code,\n"
    \o "            download_speed_mbps,\n"
    \o "            upload_speed_mbps,\n"
    \o "            download_speed_mbps IS NOT NULL as has_download,\n"
    \o "            upload_speed_mbps IS NOT NULL as has_upload,\n"
    \o "            MINRTT,\n"
    \o "            MeanRTT,\n"
    \o "            server.Machine AS server_machine,\n"
    \o "            client.IP AS client_ip,\n"
    \o "            web100_log_entry.snap.Duration\n"
    \o "        FROM\n"
    \o "            ~measurement-lab.ndt.unified_downloads~\n"
    \o "        WHERE\n"
    \o "            DATE(test_date) BETWEEN DATE('"
    \o start_date
    \o "') AND DATE('"
    \o end_date
    \o "')\n"
    \o "        "

\* the query text of get_ndt_measurements with its optional filters and order
ndt_query_filtered(a, start_date, end_date) ==
    LET q0 == ndt_query(start_date, end_date)
        q1 == IF Truthy(a.country_code)
              THEN q0 \o " AND client.Geo.CountryCode = '"
                      \o Upper(a.country_code.value) \o "'"
              ELSE q0
        q2 == IF a.min_download_speed # None
              THEN q1 \o " AND download_speed_mbps >= "
                      \o FloatStr(a.min_download_speed.value)
              ELSE q1
        q3 == IF a.max_download_speed # None
              THEN q2 \o " AND download_speed_mbps <= "
                      \o FloatStr(a.max_download_speed.value)
              ELSE q2
    IN  q3 \o " ORDER BY test_date DESC"

\* the query text of get_available_countries
countries_query(yesterday, limit) ==
    "\n"
    \o "        SELECT DISTINCT\n"
    \o "            client.Geo.CountryCode as country_code,\n"
    \o "            client.Geo.CountryName as country_name\n"
    \o "        FROM\n"
    \o "            ~measurement-lab.ndt.unified_downloads~\n"
    \o "        WHERE\n"
    \o "            DATE(test_date) = DATE('"
    \o yesterday
    \o "')\n"
    \o "            AND client.Geo.CountryCode IS NOT NULL\n"
    \o "        ORDER BY country_code\n"
    \o "        LIMIT "
    \o IntStr(limit)
    \o "\n"
    \o "        "

\* the base query text of get_statistics
statistics_query(start_date, end_date) ==
    "\n"
    \o "        SELECT\n"
    \o "            COUNT(*) as total_tests,\n"
    \o "            COUNTIF(download_speed_mbps IS NOT NULL) as tests_with_download,\n"
    \o "            COUNTIF(upload_speed_mbps IS NOT NULL) as tests_with_upload,\n"
    \o "            AVG(download_speed_mbps) as avg_download_mbps,\n"
    \o "            AVG(upload_speed_mbps) as avg_upload_mbps,\n"
    \o "            MIN(download_speed_mbps) as min_download_mbps,\n"
    \o "            MAX(download_speed_mbps) as max_download_mbps,\n"
    \o "            APPROX_QUANTILES(download_speed_mbps, 100)[OFFSET(50)] as median_download_mbps\n"
    \o "        FROM\n"
    \o "            ~measurement-lab.ndt.unified_downloads~\n"
    \o "        WHERE\n"
    \o "            DATE(test_date) BETWEEN DATE('"
    \o start_date
    \o "') AND DATE('"
    \o end_date
    \o "')\n"
    \o "        "

statistics_query_filtered(a, start_date, end_date) ==
    LET q0 == statistics_query(start_date, end_date)
    IN  IF Truthy(a.country_code)
        THEN q0 \o " AND client.Geo.CountryCode = '"
                \o Upper(a.country_code.value) \o "'"
        ELSE q0

\* the query text of get_measurement_by_id
by_id_query(test_id) ==
    "\n"
    \o "        SELECT\n"
    \o "            *\n"
    \o "        FROM\n"
    \o "            ~measurement-lab.ndt.unified_downloads~\n"
    \o "        WHERE\n"
    \o "            test_id = '"
    \o test_id
    \o "'\n"
    \o "        LIMIT 1\n"
    \o "        "

\* ("LIMIT" not in query.upper()): whether _execute_query appends a limit
LimitMissing(query) == ~Contains(Upper(query), "LIMIT")

\* _execute_query: the text handed to self.client.query
execute_query_text(query, limit) ==
    IF LimitMissing(query) THEN query \o " LIMIT " \o IntStr(limit) ELSE query

\* self.client.query(query)
Query(text) == [call |-> "query", query |-> text]

\* what the warehouse answers: rows, a GoogleCloudError or another exception
Rows(rows) == [kind |-> "rows", rows |-> rows]
GoogleCloudError(text) == [kind |-> "GoogleCloudError", text |-> text]
OtherError(text) == [kind |-> "Exception", text |-> text]

\* _execute_query from the answer on
execute_query_result(w) ==
    IF w.kind = "rows" THEN Return(w.rows)
    ELSE IF w.kind = "GoogleCloudError" THEN Raise("BigQuery error: " \o w.text)
    ELSE Raise("Query execution error: " \o w.text)

get_ndt_measurements_result(start_date, end_date, w) ==
    LET r == execute_query_result(w)
    IN  IF r.kind = "raise"
        THEN Raise("Error fetching NDT measurements: " \o r.msg)
        ELSE Return([dataset |-> "ndt.unified_downloads",
                     count |-> Len(r.value),
                     date_range |-> [start |-> start_date, end |-> end_date],
                     results |-> r.value])

\* the list get_available_countries returns when the query fails
fallback_countries ==
    << [country_code |-> "US", country_name |-> "United States"],
       [country_code |-> "GB", country_name |-> "United Kingdom"],
       [country_code |-> "DE", country_name |-> "Germany"] >>

\* mutant of get_available_countries_result: a failed query is raised as the
\* other methods raise it
get_available_countries_result_Raising(w) ==
    LET r == execute_query_result(w)
    IN  IF r.kind = "raise"
        THEN Raise("Error fetching countries: " \o r.msg)
        ELSE Return(r.value)

get_available_countries_result(w) ==
    LET r == execute_query_result(w)
    IN  IF r.kind = "raise" THEN Return(fallback_countries) ELSE Return(r.value)

\* rows[0] if rows else {}
FirstRow(rows) == IF rows # <<>> THEN rows[1] ELSE EmptyDict

\* mutant of get_statistics_result: a failed query is answered like an empty one
get_statistics_result_Swallowing(w) ==
    LET r == execute_query_result(w)
    IN  IF r.kind = "raise" THEN Return(EmptyDict) ELSE Return(FirstRow(r.value))

get_statistics_result(w) ==
    LET r == execute_query_result(w)
    IN  IF r.kind = "raise"
        THEN Raise("Error fetching statistics: " \o r.msg)
        ELSE Return(FirstRow(r.value))

get_measurement_by_id_result(w) ==
    LET r == execute_query_result(w)
    IN  IF r.kind = "raise"
        THEN Raise("Error fetching measurement: " \o r.msg)
        ELSE Return(FirstRow(r.value))

\* x or y
Or(x, y) == IF Truthy(x) THEN x ELSE y

\* the library calls of MLabClient.__init__
FromServiceAccountJson(path, project) ==
    [call |-> "bigquery.Client.from_service_account_json",
     path |-> path, project |-> project]
ClientWithProject(project) == [call |-> "bigquery.Client", project |-> project]
ClientBare == [call |-> "bigquery.Client"]

\* the call inside the try: the key file when a path is set and exists
init_first_call(a) ==
    LET project_id == Or(a.project_id, a.env.GOOGLE_CLOUD_PROJECT)
        credentials_path ==
            Or(a.credentials_path, a.env.GOOGLE_APPLICATION_CREDENTIALS)
    IN  IF Truthy(credentials_path) /\ a.exists
        THEN FromServiceAccountJson(credentials_path.value, project_id)
        ELSE ClientWithProject(project_id)

\* mutant of init_calls: a chain of three attempts, each after the one
\* before it raised
init_calls_Chain(a) ==
    LET project_id == Or(a.project_id, a.env.GOOGLE_CLOUD_PROJECT)
    IN  IF ~a.first_raises THEN <<init_first_call(a)>>
        ELSE IF init_first_call(a).call = "bigquery.Client.from_service_account_json"
             THEN <<init_first_call(a), ClientWithProject(project_id), ClientBare>>
             ELSE <<init_first_call(a), ClientBare>>

\* the library calls __init__ makes: the except branch runs when the call
\* inside the try raised
init_calls(a) ==
    IF a.first_raises THEN <<init_first_call(a), ClientBare>>
    ELSE <<init_first_call(a)>>

\* __init__ ends normally unless the call of the except branch raises too
init_result(a) ==
    IF a.first_raises /\ a.last_raises
    THEN Raise("DefaultCredentialsError")
    ELSE Return(None)

-----------------------------------------------------------------------------
(* The HTTP facade (src/backend/main.py).                                  *)

\* mutant of LimitAccepted: the lower bound is not declared
LimitAccepted_NoFloor(limit) == limit <= 1000

\* limit: int = Query(100, ge=1, le=1000)
LimitAccepted(limit) == limit >= 1 /\ limit <= 1000
\* offset: int = Query(0, ge=0)
OffsetAccepted(offset) == offset >= 0

\* the query parameters the declared constraints reject
RejectedParams(a) ==
    (IF LimitAccepted(a.limit) THEN {} ELSE {"limit"})
        \cup (IF OffsetAccepted(a.offset) THEN {} ELSE {"offset"})

\* the framework's answer to a request whose parameters are rejected
ValidationError(params) == HttpResponse(422, [detail |-> params])

\* mutant of RouteResponse: the failure text is left out of the detail
RouteResponse_NoText(what, r, body) ==
    IF r.kind = "raise"
    THEN HttpResponse(500, [detail |-> "Error fetching " \o what])
    ELSE HttpResponse(200, body)

\* the try/except of a route: the client's value in a 200 answer, or
\* HTTPException(status_code=500, detail=f"Error fetching <what>: {str(e)}")
RouteResponse(what, r, body) ==
    IF r.kind = "raise"
    THEN HttpResponse(500, [detail |-> "Error fetching " \o what \o ": " \o r.msg])
    ELSE HttpResponse(200, body)

main_get_measurements_response(r) ==
    RouteResponse("measurements", r, IF r.kind = "return" THEN r.value ELSE None)
main_get_available_tests_response(r) ==
    RouteResponse("tests", r, IF r.kind = "return" THEN [tests |-> r.value] ELSE None)
main_get_countries_response(r) ==
    RouteResponse("countries", r,
                  IF r.kind = "return" THEN [countries |-> r.value] ELSE None)

main_root_response ==
    HttpResponse(200,
        [message |-> "OONI Data Processing API",
         version |-> "1.0.0",
         endpoints |-> [measurements |-> "/api/v1/measurements",
                        tests |-> "/api/v1/tests",
                        countries |-> "/api/v1/countries",
                        health |-> "/health"]])

\* datetime.now().isoformat() of a clock reading
Isoformat(t) == Strftime(t.date) \o "T" \o t.time

main_health_check_response(now) ==
    HttpResponse(200, [status |-> "healthy", timestamp |-> Isoformat(now)])

-----------------------------------------------------------------------------
(* Inputs.                                                                 *)

Limits ==
    ((1 - LimitSlack)..(1 + LimitSlack))
        \cup ((MAX_LIMIT - LimitSlack)..(MAX_LIMIT + LimitSlack))
Offsets == (0 - OffsetSlack)..OffsetSlack

MeasurementArgs ==
    [test_name : Opt({"", "web_connectivity"}),
     probe_cc : Opt({"US"}),
     since : {None},
     until : {None},
     limit : Limits,
     offset : Offsets]
    \cup
    [test_name : {None},
     probe_cc : {None},
     since : Opt({"2024-01-01"}),
     until : Opt({"", "2024-01-31"}),
     limit : {100},
     offset : {0}]

\* an upstream body with more distinct country codes than get_countries
\* keeps, in descending order of their numbers, one of them twice and one
\* record without a code
LongResults ==
    LET n == COUNTRIES_CUT + ExtraCodes
    IN  [i \in 1..(n + 2) |->
            IF i = n + 1 THEN [test_name |-> "whatsapp"]
            ELSE IF i = n + 2 THEN [probe_cc |-> CodeOf(0), test_name |-> "telegram"]
            ELSE [probe_cc |-> CodeOf(n - i), test_name |-> "telegram"]]

ResultLists == SeqsUpTo(MeasurementRecords, MaxResults) \cup {LongResults}

OkBody(items) == JsonValue(PyDict(items))

Replies ==
    { RequestError("timed out"), RequestError("[Errno 111] Connection refused") }
    \cup { Response(301, "Moved Permanently", JsonError("Expecting value")),
           Response(404, "{\"error\": \"not found\"}",
                    OkBody([error |-> "not found"])),
           Response(500, "Internal Server Error", JsonError("Expecting value")) }
    \cup { Response(200, "<html>", JsonError("Expecting value: line 1 column 1 (char 0)")),
           Response(200, "null", JsonValue(None)),
           Response(200, "{\"metadata\": ...}", OkBody([metadata |-> [count |-> 0]])) }
    \cup { Response(st, "{\"results\": ...}",
                    OkBody([metadata |-> [count |-> Len(rs)], results |-> rs])) :
             st \in {200}, rs \in ResultLists }
    \cup { Response(201, "{\"results\": ...}", OkBody([results |-> <<>>])) }

\* the days on which calls are made: the day before is in the same month,
\* the last day of February in a leap and in a common year, and in the year
\* before
Todays ==
    { Date(2025, 6, 15), Date(2024, 3, 1), Date(2025, 3, 1), Date(2025, 1, 1) }

NdtArgs ==
    [start_date : Opt({"2024-01-01"}),
     end_date : Opt({"", "2024-01-31"}),
     country_code : Opt({"", "us", "Limit"}),
     min_download_speed : Opt({0}),
     max_download_speed : Opt({50}),
     limit : {1, 100},
     now : {Date(2025, 6, 15)}]
    \cup
    [start_date : {None},
     end_date : Opt({"2024-01-31"}),
     country_code : Opt({"gb"}),
     min_download_speed : {None},
     max_download_speed : {None},
     limit : {100},
     now : Todays]

StatisticsArgs ==
    [start_date : Opt({"", "2024-01-01"}),
     end_date : Opt({"2024-01-31"}),
     country_code : Opt({"us", "Limit"}),
     now : Todays]

CountriesArgs == [limit : {10, 100}, now : Todays]

ByIdArgs == [test_id : {"ndt-5mhxk_1700000000_0000000000A1B2C3", "limit"}]

\* a row of a query result, as dict(row)
ResultRow(i) == [test_id |-> "ndt-" \o NatStr(i), country_code |-> "US"]

WarehouseReplies ==
    { Rows([i \in 1..n |-> ResultRow(i)]) : n \in 0..MaxRows }
    \cup { GoogleCloudError("403 Access Denied: Table measurement-lab:ndt"),
           OtherError("Your default credentials were not found") }

\* readings of the clock, as datetime.now() gives them
ClockReadings ==
    { [date |-> Date(2025, 6, 15), time |-> "09:30:00.123456"],
      [date |-> Date(2025, 1, 1), time |-> "00:00:01.000250"] }

InitArgs ==
    [project_id : Opt({"my-project"}),
     credentials_path : Opt({"", "/keys/sa.json"}),
     env : [GOOGLE_CLOUD_PROJECT : Opt({"env-project"}),
            GOOGLE_APPLICATION_CREDENTIALS : Opt({"/env/sa.json"})],
     exists : BOOLEAN,
     first_raises : BOOLEAN,
     last_raises : BOOLEAN]

-----------------------------------------------------------------------------
(* The state machine.                                                      *)

Slots == 1..NumRequests

\* ooni_client = OONIClient(): the fields __init__ assigns
OONIClient_new ==
    [base_url |-> base_url, api_base |-> base_url \o "/api/v1",
     client |-> "httpx.AsyncClient(timeout=30.0)"]

\* a slot of the facade with no request in it
FreeSlot ==
    [pc |-> "free", route |-> "none", params |-> None, sent |-> <<>>,
     reply |-> <<>>, response |-> NoResult]

\* no call is under way, no MLabClient has been constructed; the facade
\* module has constructed ooni_client and handles no request
Init ==
    /\ pc = "idle"
    /\ op = "none"
    /\ args = None
    /\ sent = <<>>
    /\ reply = <<>>
    /\ result = NoResult
    /\ mlab = "absent"
    /\ ooni_client = OONIClient_new
    /\ inflight = [r \in Slots |-> FreeSlot]

\* a call that ends without an outbound request
Finish(o, a, res) ==
    /\ pc = "idle"
    /\ pc' = "done"
    /\ op' = o
    /\ args' = a
    /\ sent' = <<>>
    /\ reply' = <<>>
    /\ result' = res

\* a call that issues the outbound request rq and waits for its answer
Await(o, a, rq) ==
    /\ pc = "idle"
    /\ pc' = "awaiting"
    /\ op' = o
    /\ args' = a
    /\ sent' = <<rq>>
    /\ reply' = <<>>
    /\ result' = NoResult

\* GET /api/v1/measurements: rejected by the declared constraints, or handed
\* to ooni_client.get_measurements
main_get_measurements ==
    \E a \in MeasurementArgs :
        /\ mlab = "absent"
        /\ IF RejectedParams(a) # {}
           THEN Finish("main.get_measurements", a, ValidationError(RejectedParams(a)))
           ELSE Await("main.get_measurements", a, get_measurements_request(a))
        /\ UNCHANGED <<mlab, cvars>>

\* GET /api/v1/tests
main_get_available_tests ==
    /\ mlab = "absent"
    /\ Await("main.get_available_tests", None, get_test_names_request)
    /\ UNCHANGED <<mlab, cvars>>

\* GET /api/v1/countries
main_get_countries ==
    /\ mlab = "absent"
    /\ Await("main.get_countries", None, get_countries_request)
    /\ UNCHANGED <<mlab, cvars>>

\* GET /
main_root ==
    /\ mlab = "absent"
    /\ Finish("main.root", None, main_root_response)
    /\ UNCHANGED <<mlab, cvars>>

\* GET /health
main_health_check ==
    /\ mlab = "absent"
    /\ \E t \in ClockReadings :
          Finish("main.health_check", [now |-> t], main_health_check_response(t))
    /\ UNCHANGED <<mlab, cvars>>

\* OONIClient.get_measurements called on the client itself
OONIClient_get_measurements ==
    \E a \in MeasurementArgs :
        /\ mlab = "absent"
        /\ Await("OONIClient.get_measurements", a, get_measurements_request(a))
        /\ UNCHANGED <<mlab, cvars>>

OONIClient_get_test_names ==
    /\ mlab = "absent"
    /\ Await("OONIClient.get_test_names", None, get_test_names_request)
    /\ UNCHANGED <<mlab, cvars>>

OONIClient_get_countries ==
    /\ mlab = "absent"
    /\ Await("OONIClient.get_countries", None, get_countries_request)
    /\ UNCHANGED <<mlab, cvars>>

HttpOps ==
    { "main.get_measurements", "main.get_available_tests", "main.get_countries",
      "OONIClient.get_measurements", "OONIClient.get_test_names",
      "OONIClient.get_countries" }

\* what the awaiting operation makes of the answer r
HttpOutcome(o, r) ==
    CASE o = "OONIClient.get_measurements" -> get_measurements_result(r)
      [] o = "OONIClient.get_test_names" -> get_test_names_result(r)
      [] o = "OONIClient.get_countries" -> get_countries_result(r)
      [] o = "main.get_measurements" ->
            main_get_measurements_response(get_measurements_result(r))
      [] o = "main.get_available_tests" ->
            main_get_available_tests_response(get_test_names_result(r))
      [] o = "main.get_countries" ->
            main_get_countries_response(get_countries_result(r))

\* the upstream answers the outstanding request and the operation completes
HttpReply ==
    /\ pc = "awaiting"
    /\ op \in HttpOps
    /\ \E r \in Replies :
        /\ reply' = Append(reply, r)
        /\ result' = HttpOutcome(op, r)
    /\ pc' = "done"
    /\ UNCHANGED <<op, args, sent, mlab, cvars>>

\* MLabClient(project_id, credentials_path): one of the library calls gives
\* self.client, or the constructor raises and no client exists
MLabClient_init ==
    \E a \in InitArgs :
        /\ pc = "idle"
        /\ mlab = "absent"
        /\ pc' = "done"
        /\ op' = "MLabClient.__init__"
        /\ args' = a
        /\ sent' = init_calls(a)
        /\ reply' = <<>>
        /\ result' = init_result(a)
        /\ mlab' = IF init_result(a).kind = "raise" THEN "absent" ELSE "client"
        /\ UNCHANGED cvars

\* a method of MLabClient hands its query text to _execute_query
MLabCall(o, a, query, limit) ==
    Await(o, a, Query(execute_query_text(query, limit)))

MLabClient_get_ndt_measurements ==
    /\ mlab = "client"
    /\ \E a \in NdtArgs :
            LET start_date == ResolveStart(a.start_date, a.now)
                end_date == ResolveEnd(a.end_date, start_date)
            IN  MLabCall("MLabClient.get_ndt_measurements", a,
                         ndt_query_filtered(a, start_date, end_date), a.limit)
    /\ UNCHANGED <<mlab, cvars>>

MLabClient_get_available_countries ==
    /\ mlab = "client"
    /\ \E a \in CountriesArgs :
            MLabCall("MLabClient.get_available_countries", a,
                     countries_query(Yesterday(a.now), a.limit), a.limit)
    /\ UNCHANGED <<mlab, cvars>>

MLabClient_get_statistics ==
    /\ mlab = "client"
    /\ \E a \in StatisticsArgs :
            LET start_date == ResolveStart(a.start_date, a.now)
                end_date == ResolveEnd(a.end_date, start_date)
            IN  MLabCall("MLabClient.get_statistics", a,
                         statistics_query_filtered(a, start_date, end_date), 1)
    /\ UNCHANGED <<mlab, cvars>>

MLabClient_get_measurement_by_id ==
    /\ mlab = "client"
    /\ \E a \in ByIdArgs :
            MLabCall("MLabClient.get_measurement_by_id", a, by_id_query(a.test_id), 1)
    /\ UNCHANGED <<mlab, cvars>>

MLabOps ==
    { "MLabClient.get_ndt_measurements", "MLabClient.get_available_countries",
      "MLabClient.get_statistics", "MLabClient.get_measurement_by_id" }

\* what the waiting method makes of the warehouse's answer w
WarehouseOutcome(o, a, w) ==
    CASE o = "MLabClient.get_ndt_measurements" ->
            LET start_date == ResolveStart(a.start_date, a.now)
            IN  get_ndt_measurements_result(
                    start_date, ResolveEnd(a.end_date, start_date), w)
      [] o = "MLabClient.get_available_countries" -> get_available_countries_result(w)
      [] o = "MLabClient.get_statistics" -> get_statistics_result(w)
      [] o = "MLabClient.get_measurement_by_id" -> get_measurement_by_id_result(w)

\* the warehouse answers the query and the method completes
WarehouseReply ==
    /\ pc = "awaiting"
    /\ op \in MLabOps
    /\ \E w \in WarehouseReplies :
        /\ reply' = Append(reply, w)
        /\ result' = WarehouseOutcome(op, args, w)
    /\ pc' = "done"
    /\ UNCHANGED <<op, args, sent, mlab, cvars>>

\* the program that constructed the MLabClient ends
MLabExit ==
    /\ pc = "idle"
    /\ mlab = "client"
    /\ mlab' = "absent"
    /\ UNCHANGED <<pc, op, args, sent, reply, result, cvars>>

\* the caller takes the outcome; the next call can start
Done ==
    /\ pc = "done"
    /\ pc' = "idle"
    /\ op' = "none"
    /\ args' = None
    /\ sent' = <<>>
    /\ reply' = <<>>
    /\ result' = NoResult
    /\ UNCHANGED <<mlab, cvars>>

Next ==
    \/ main_get_measurements
    \/ main_get_available_tests
    \/ main_get_countries
    \/ main_root
    \/ main_health_check
    \/ OONIClient_get_measurements
    \/ OONIClient_get_test_names
    \/ OONIClient_get_countries
    \/ HttpReply
    \/ MLabClient_init
    \/ MLabClient_get_ndt_measurements
    \/ MLabClient_get_available_countries
    \/ MLabClient_get_statistics
    \/ MLabClient_get_measurement_by_id
    \/ WarehouseReply
    \/ MLabExit
    \/ Done

-----------------------------------------------------------------------------
(* The facade serving several requests at once.  The handlers are         *)
(* coroutines of one event loop: a handler runs without interruption from *)
(* one await to the next, and the only await of a route is the outbound   *)
(* call its client method issues.  Between the call and its answer any    *)
(* other request may arrive, be answered, or complete.  Every handler     *)
(* uses the one module-level instance ooni_client.  The connection pool   *)
(* inside httpx.AsyncClient is the library's own and is left out.         *)

\* mutant of OONIClient_call: the params of get_measurements are kept on the
\* instance and a later call builds on those of the calls before it
OONIClient_call_SharedParams(self, route, a) ==
    LET kept == IF "params" \in DOMAIN self THEN self.params ELSE EmptyDict
        params == IF route = "main.get_measurements"
                  THEN get_measurements_params(a) @@ kept
                  ELSE IF route = "main.get_available_tests" THEN [limit |-> 1]
                  ELSE [limit |-> COUNTRIES_SAMPLE]
    IN  [request |-> Get(self.api_base \o "/measurements", params),
         self |-> IF route = "main.get_measurements"
                  THEN ("params" :> params) @@ self
                  ELSE self]

\* a method of the instance self, from its entry to its await: the request
\* it hands to self.client.get and the instance as the method leaves it.
\* url and params are locals of the call; self is only read
OONIClient_call(self, route, a) ==
    LET params == IF route = "main.get_measurements" THEN get_measurements_params(a)
                  ELSE IF route = "main.get_available_tests" THEN [limit |-> 1]
                  ELSE [limit |-> COUNTRIES_SAMPLE]
    IN  [request |-> Get(self.api_base \o "/measurements", params),
         self |-> self]

\* the requests of the concurrent facade: one with filters at the cap, one
\* bare at the floor, one the declared constraints reject
ConcMeasurementArgs ==
    { [test_name |-> Some("web_connectivity"), probe_cc |-> Some("US"),
       since |-> None, until |-> Some("2024-01-31"), limit |-> MAX_LIMIT, offset |-> 0],
      [test_name |-> None, probe_cc |-> None,
       since |-> None, until |-> None, limit |-> 1, offset |-> 1],
      [test_name |-> None, probe_cc |-> Some("US"),
       since |-> None, until |-> None, limit |-> 0, offset |-> 0] }

\* the upstream's answers to them: a transport failure, a status failure,
\* a body without results and a body with one record
ConcReplies ==
    { RequestError("timed out"),
      Response(500, "Internal Server Error", JsonError("Expecting value")),
      Response(200, "{\"metadata\": ...}", OkBody([metadata |-> [count |-> 0]])),
      Response(200, "{\"results\": ...}",
               OkBody([metadata |-> [count |-> 1],
                       results |-> <<[probe_cc |-> "US",
                                      test_name |-> "web_connectivity"]>>])) }

\* the handler of slot r answers without an outbound call
Respond(r, route, a, res) ==
    /\ inflight[r].pc = "free"
    /\ inflight' = [inflight EXCEPT ![r] =
            [pc |-> "done", route |-> route, params |-> a, sent |-> <<>>,
             reply |-> <<>>, response |-> res]]
    /\ UNCHANGED ooni_client

\* the handler of slot r runs to the await of its client method
CallUpstream(r, route, a) ==
    LET c == OONIClient_call(ooni_client, route, a)
    IN  /\ inflight[r].pc = "free"
        /\ inflight' = [inflight EXCEPT ![r] =
                [pc |-> "awaiting", route |-> route, params |-> a,
                 sent |-> <<c.request>>, reply |-> <<>>, response |-> NoResult]]
        /\ ooni_client' = c.self

\* GET /api/v1/measurements arrives while other requests are in flight
Conc_get_measurements ==
    /\ \E r \in Slots, a \in ConcMeasurementArgs :
          IF RejectedParams(a) # {}
          THEN Respond(r, "main.get_measurements", a, ValidationError(RejectedParams(a)))
          ELSE CallUpstream(r, "main.get_measurements", a)
    /\ UNCHANGED vars

\* GET /api/v1/tests arrives
Conc_get_available_tests ==
    /\ \E r \in Slots : CallUpstream(r, "main.get_available_tests", None)
    /\ UNCHANGED vars

\* GET /api/v1/countries arrives
Conc_get_countries ==
    /\ \E r \in Slots : CallUpstream(r, "main.get_countries", None)
    /\ UNCHANGED vars

\* GET / arrives
Conc_root ==
    /\ \E r \in Slots : Respond(r, "main.root", None, main_root_response)
    /\ UNCHANGED vars

\* GET /health arrives and reads the clock
Conc_health_check ==
    /\ \E r \in Slots, t \in ClockReadings :
          Respond(r, "main.health_check", [now |-> t], main_health_check_response(t))
    /\ UNCHANGED vars

\* the upstream answers the outbound call of slot r, in any order among the
\* outstanding calls, and that handler runs to its end
Conc_reply ==
    /\ \E r \in Slots, w \in ConcReplies :
          /\ inflight[r].pc = "awaiting"
          /\ inflight' = [inflight EXCEPT ![r] =
                  [@ EXCEPT !.pc = "done",
                            !.reply = Append(@, w),
                            !.response = HttpOutcome(inflight[r].route, w)]]
    /\ UNCHANGED ooni_client
    /\ UNCHANGED vars

\* the response of slot r has been sent
Conc_done ==
    /\ \E r \in Slots :
          /\ inflight[r].pc = "done"
          /\ inflight' = [inflight EXCEPT ![r] = FreeSlot]
    /\ UNCHANGED ooni_client
    /\ UNCHANGED vars

ConcNext ==
    \/ Conc_get_measurements
    \/ Conc_get_available_tests
    \/ Conc_get_countries
    \/ Conc_root
    \/ Conc_health_check
    \/ Conc_reply
    \/ Conc_done

\* the facade under concurrently handled requests
ConcSpec == Init /\ [][ConcNext]_allvars

\* one call at a time; no request is in flight in the concurrent facade
Spec == Init /\ [][Next]_allvars

-----------------------------------------------------------------------------
(* Observations used by the properties.                                    *)

Started(o) == op = o /\ pc # "idle"
Ended(o) == op = o /\ pc = "done"

\* the answer was a transport failure or a non-2xx status
TransportOrStatusFailure(r) ==
    r.kind = "RequestError" \/ (r.kind = "Response" /\ r.status \notin 200..299)

\* the answer was a 2xx JSON object with a results field
HasResults(r) ==
    /\ r.kind = "Response"
    /\ r.status \in 200..299
    /\ r.json.ok
    /\ r.json.value.type = "dict"
    /\ "results" \in DOMAIN r.json.value.items

\* the distinct probe_cc values of the records of the answer that carry one
ObservedCodes(r) ==
    LET rs == r.json.value.items["results"]
    IN  { rs[i]["probe_cc"] : i \in {j \in 1..Len(rs) : "probe_cc" \in DOMAIN rs[j]} }

IdentifierChars == LowerLetters \o UpperLetters \o Digits \o "_"

\* position i of query text q lies inside a '...' literal
InLiteral(q, i) == Cardinality({j \in 1..(i - 1) : CharAt(q, j) = "'"}) % 2 = 1

\* the LIMIT clauses of a query text: the keyword LIMIT, in any case, as a
\* word of its own outside string literals
LimitClauses(q) ==
    Cardinality({ i \in 1..(Len(q) - 4) :
        /\ UpperChar(CharAt(q, i)) = "L"
        /\ Upper(SubSeq(q, i, i + 4)) = "LIMIT"
        /\ (i = 1 \/ IndexIn(IdentifierChars, CharAt(q, i - 1)) = 0)
        /\ (i + 5 > Len(q) \/ IndexIn(IdentifierChars, CharAt(q, i + 5)) = 0)
        /\ ~InLiteral(q, i) })

-----------------------------------------------------------------------------
(* Properties.                                                             *)

\* C1: a call of GET /api/v1/measurements with limit outside [1,1000] or
\* offset < 0 is answered with a client error (4xx) and issues no outbound
\* request at any point: the call is never waiting for the upstream.
C1_RejectedBeforeUpstream ==
    (Started("main.get_measurements")
        /\ (args.limit < 1 \/ args.limit > 1000 \/ args.offset < 0))
    => /\ pc = "done"
       /\ sent = <<>>
       /\ reply = <<>>
       /\ result.kind = "http"
       /\ result.status \in 400..499

C1_Witness ==
    /\ Ended("main.get_measurements")
    /\ args.limit = 0
    /\ args.offset = 0
    /\ result.kind = "http"
    /\ result.status = 422
    /\ sent = <<>>

\* C2: every outbound request of OONIClient.get_measurements carries a
\* limit in [1,1000], whatever integer limit the caller passed.
C2_OutboundLimitInRange ==
    Started("OONIClient.get_measurements")
    => \A i \in 1..Len(sent) :
          sent[i].params["limit"] >= 1 /\ sent[i].params["limit"] <= 1000

\* C3: OONIClient.get_measurements sends limit 1000 for every limit above
\* 1000 and the caller's limit for every limit in [1,1000]; the request is
\* issued in both cases and the call raises only when the upstream's answer
\* is a failure, never because of the limit.
C3_ClampNotReject ==
    Started("OONIClient.get_measurements")
    => /\ Len(sent) = 1
       /\ args.limit > 1000 => sent[1].params["limit"] = 1000
       /\ (args.limit >= 1 /\ args.limit <= 1000)
            => sent[1].params["limit"] = args.limit
       /\ (pc = "done" /\ result.kind = "raise")
            => (TransportOrStatusFailure(reply[1]) \/ ~reply[1].json.ok)

C3_Witness ==
    /\ Ended("OONIClient.get_measurements")
    /\ args.limit = 1001
    /\ sent[1].params["limit"] = 1000
    /\ result.kind = "return"

\* C4: the query text a method of MLabClient hands to the warehouse holds
\* exactly one LIMIT clause, whatever the caller's arguments.
C4_ExactlyOneLimitClause ==
    (op \in MLabOps /\ pc # "idle") => LimitClauses(sent[1].query) = 1

\* C5: when the outbound call of get_countries fails (transport failure,
\* non-2xx status, unparsable body, or a body without the results field)
\* get_countries raises nothing and returns the ten-entry static list, in
\* order.
C5_FallbackOnFailure ==
    (Ended("OONIClient.get_countries") /\ ~HasResults(reply[1]))
    => /\ result.kind = "return"
       /\ Len(result.value) = 10
       /\ [i \in 1..10 |-> result.value[i].code]
            = <<"US", "GB", "DE", "FR", "CN", "RU", "IR", "IN", "BR", "JP">>
       /\ [i \in 1..10 |-> result.value[i].name]
            = <<"United States", "United Kingdom", "Germany", "France", "China",
                "Russia", "Iran", "India", "Brazil", "Japan">>

C5_Witness ==
    /\ Ended("OONIClient.get_countries")
    /\ reply[1].kind = "Response"
    /\ reply[1].status = 200
    /\ reply[1].json.ok
    /\ reply[1].json.value.type = "dict"
    /\ "results" \notin DOMAIN reply[1].json.value.items
    /\ Len(result.value) = 10

C7_SameFallbackAsOONI ==
    (Ended("MLabClient.get_available_countries") /\ reply[1].kind # "rows")
    => result = Return(common_countries)

\* C7 as amended: when its query fails, get_available_countries raises
\* nothing and returns its own static list of three entries (US, GB, DE,
\* keyed country_code and country_name), which is not the ten-entry list of
\* OONIClient.get_countries.
C7_OwnFallback ==
    (Ended("MLabClient.get_available_countries") /\ reply[1].kind # "rows")
    => /\ result.kind = "return"
       /\ result.value =
            << [country_code |-> "US", country_name |-> "United States"],
               [country_code |-> "GB", country_name |-> "United Kingdom"],
               [country_code |-> "DE", country_name |-> "Germany"] >>
       /\ Len(result.value) # Len(common_countries)

C7_Witness ==
    /\ Ended("MLabClient.get_available_countries")
    /\ reply[1].kind = "GoogleCloudError"
    /\ Len(result.value) = 3

\* C8: get_test_names issues exactly one outbound request per call and
\* returns the same 15-entry catalog whether the probe succeeds, is answered
\* with a non-2xx status or fails in transport; it never raises.
C8_CatalogIndependentOfProbe ==
    Started("OONIClient.get_test_names")
    => /\ Len(sent) = 1
       /\ sent[1].method = "GET"
       /\ pc = "done"
            => /\ Len(reply) = 1
               /\ result.kind = "return"
               /\ Len(result.value) = 15
               /\ result.value[1] = "web_connectivity"
               /\ result.value[15] = "stunreachability"
               /\ result.value = common_tests

C8_Witness ==
    /\ Ended("OONIClient.get_test_names")
    /\ reply[1].kind = "RequestError"
    /\ result.kind = "return"
    /\ Len(result.value) = 15

IsKeyFileCall(c) == c.call = "bigquery.Client.from_service_account_json"
IsAmbientCall(c) == c.call = "bigquery.Client" /\ "project" \in DOMAIN c
IsBareCall(c) == c.call = "bigquery.Client" /\ "project" \notin DOMAIN c

C10_FailurePropagates ==
    ((Ended("OONIClient.get_measurements") \/ Ended("main.get_measurements"))
        /\ reply # <<>> /\ TransportOrStatusFailure(reply[1]))
    => LET r == reply[1]
           text == IF op = "main.get_measurements" THEN result.body.detail
                   ELSE result.msg
       IN  /\ Len(sent) = 1
           /\ Len(reply) = 1
           /\ IF op = "main.get_measurements"
              THEN result.kind = "http" /\ result.status = 500
                   /\ Contains(text, "measurements")
              ELSE result.kind = "raise"
           /\ Contains(text, r.text)
           /\ r.kind = "Response" => Contains(text, IntStr(r.status) \o " - " \o r.text)

C10_Witness ==
    /\ Ended("main.get_measurements")
    /\ reply # <<>>
    /\ reply[1].kind = "Response"
    /\ reply[1].status = 404
    /\ result.kind = "http"
    /\ result.status = 500

\* the calendar day before each day of Todays, as YYYY-MM-DD
DayBefore(now) ==
    CASE now = Date(2025, 6, 15) -> "2025-06-14"
      [] now = Date(2024, 3, 1) -> "2024-02-29"
      [] now = Date(2025, 3, 1) -> "2025-02-28"
      [] now = Date(2025, 1, 1) -> "2024-12-31"

\* a date argument was supplied: it is neither None nor the empty text
Supplied(o) == o # None /\ o.value # ""

C12_EmptyIsNotFailure ==
    Ended("MLabClient.get_statistics")
    => LET w == reply[1]
       IN  /\ Len(sent) = 1
           /\ (w.kind = "rows" /\ Len(w.rows) = 0)
                => (result.kind = "return" /\ DOMAIN result.value = {})
           /\ (w.kind = "rows" /\ Len(w.rows) > 0)
                => (result.kind = "return" /\ result.value = w.rows[1])
           /\ w.kind # "rows"
                => /\ result.kind = "raise"
                   /\ Contains(result.msg, "Error fetching statistics")
                   /\ Contains(result.msg, w.text)

C12_Witness ==
    /\ Ended("MLabClient.get_statistics")
    /\ reply[1].kind = "rows"
    /\ Len(reply[1].rows) = 0
    /\ result.kind = "return"
    /\ DOMAIN result.value = {}


\* the outbound calls of a request of the facade handled alone
AloneSent(route, a) ==
    CASE route = "main.get_measurements" ->
            IF RejectedParams(a) # {} THEN <<>> ELSE <<get_measurements_request(a)>>
      [] route = "main.get_available_tests" -> <<get_test_names_request>>
      [] route = "main.get_countries" -> <<get_countries_request>>
      [] OTHER -> <<>>

\* the response to a request of the facade handled alone, given the answers
\* to its own outbound calls
AloneResponse(route, a, answers) ==
    CASE route = "main.root" -> main_root_response
      [] route = "main.health_check" -> main_health_check_response(a.now)
      [] route = "main.get_measurements" /\ RejectedParams(a) # {} ->
            ValidationError(RejectedParams(a))
      [] OTHER -> HttpOutcome(route, answers[1])

\* C13: under any interleaving of the requests the facade handles at the
\* same time, every request sends the outbound call it would send alone and
\* is answered as it would be alone, from its own parameters and the answer
\* to its own call; and the process-wide client instance stays as it was
\* constructed, since no handler writes it.
C13_SameAsAlone ==
    /\ ooni_client = OONIClient_new
    /\ \A r \in Slots :
          LET q == inflight[r]
          IN  q.pc # "free" =>
                /\ q.sent = AloneSent(q.route, q.params)
                /\ q.pc = "awaiting" => (q.reply = <<>> /\ q.response = NoResult)
                /\ q.pc = "done" =>
                      /\ Len(q.reply) = Len(q.sent)
                      /\ q.response = AloneResponse(q.route, q.params, q.reply)

\* two measurement requests with different parameters are in flight
\* together: the one without filters has been answered with a 200 while the
\* one with filters still waits, and each carries its own outbound call
C13_Witness ==
    /\ inflight[1].pc = "awaiting" /\ inflight[2].pc = "done"
    /\ inflight[1].route = "main.get_measurements"
    /\ inflight[2].route = "main.get_measurements"
    /\ inflight[1].params.limit = MAX_LIMIT
    /\ inflight[2].params.limit = 1
    /\ "probe_cc" \in DOMAIN inflight[1].sent[1].params
    /\ "probe_cc" \notin DOMAIN inflight[2].sent[1].params
    /\ inflight[2].response.status = 200

=============================================================================
